---- MODULE Spec2Model ----
(***************************************************************************)
(* Model of chex/_src/fake.py: the patches of jax.jit / jax.pmap and of    *)
(* the collectives, the FakeContext exit stacks, the callback-injecting    *)
(* OnCallOfTransformedFunction, the argument massaging of the fake pmap    *)
(* and the XLA_FLAGS device-count helper.                                  *)
(***************************************************************************)
EXTENDS Integers, Sequences, FiniteSets, TLC

VARIABLES
  jax,              \* the patched namespace: attribute name -> function object
  jax_disable_jit,  \* jax.config.jax_disable_jit
  made,             \* FakeContext handle -> the factory call that returned it
  stacks,           \* FakeContext handle -> its ExitStack callbacks (last in, first out)
  started,          \* history: the handle is between start()/with-entry and stop()/with-exit
  pre,              \* history: the namespace and config when the handle was created
  live,             \* history: handles still holding callbacks, in creation order
  lifo,             \* history: every exit so far closed the most recently created live handle
  propagated,       \* the last exit was given an exception and let it propagate
  oc_name,          \* OnCallOfTransformedFunction instance -> self._fn_transformation
  oc_patch,         \* instance -> self._patch (index into patches, 0 for None)
  oc_orig,          \* instance -> self._original_fn_transformation
  patches,          \* the mock.patch objects created by __enter__, in creation order
  active,           \* mock's _active_patches (indices into patches)
  entries,          \* history: per instance, the global seen by each unmatched __enter__
  nested,           \* history: the instance was re-entered inside its current outermost entry
  ocStack,          \* history: the instances entered and not yet exited, in order
  ocLifo,           \* history: every __exit__ so far closed the most recent __enter__
  initial,          \* history: the namespace and config of the initial state
  held,             \* the function last obtained from a transformation
  via,              \* history: how held was obtained
  log,              \* the calls made by the last call of held
  result,           \* what the last call of held returned
  pm,               \* the fake-pmap scenario: signature, arguments, in_axes, outcome
  xla_flags,        \* os.environ['XLA_FLAGS'] as its whitespace-separated flags
  backend,          \* jax.lib.xla_bridge._backends holds a 'cpu' backend
  cpu_call          \* the last set_n_cpu_devices call: its input and outcome

fakeVars == <<made, stacks, started, pre, live, lifo, propagated>>
ocVars == <<oc_name, oc_patch, oc_orig, patches, active, entries, nested, ocStack,
            ocLifo, held, via, log, result>>
cpuVars == <<xla_flags, backend, cpu_call>>
vars == <<jax, jax_disable_jit, initial, fakeVars, ocVars, pm, cpuVars>>

----------------------------------------------------------------------------
(* Bounds of the model. *)
NCtx == 2          \* FakeContext handles
NInst == 2         \* OnCallOfTransformedFunction instances
MaxPatches == 3    \* __enter__ calls over a run
RecursionLimit == 3 \* nested Python calls before RecursionError (scaled down)
MaxFlags == 2      \* flags in XLA_FLAGS before the call
MaxN == 2          \* device counts 1..MaxN

Ctx == 1..NCtx
Inst == 1..NInst
Fns == {"f"}             \* user functions handed to a transformation
ArgVals == {"x"}        \* argument values of a call

----------------------------------------------------------------------------
(* Function objects. k: "orig" the framework's own, "fake" one of the      *)
(* module-level fakes, "wrap" a _new_fn_transformation closure, "none"     *)
(* Python's None. i, g tell objects of one kind apart.                     *)
Fn(k, n, i, g) == [k |-> k, n |-> n, i |-> i, g |-> g]
None == Fn("none", "", 0, 0)
Orig(n) == Fn("orig", n, 0, 0)

Collectives == <<"psum", "pmean", "pmax", "pmin", "all_gather">>
Reductions == {"psum", "pmean", "pmax", "pmin"}
PmapNames == {"pmap", "psum", "pmean", "pmax", "pmin", "all_gather"}
Names == {"jit"} \cup PmapNames

JaxOrig == [n \in Names |-> Orig(n)]

\* _fake_jit, _fake_psum, ... are module-level objects: one per name.
FakeOf(n) == Fn("fake", n, 0, 0)
\* functools.partial(_fake_pmap, jit_result=jr): a new object per fake_pmap call.
FakePmapPartial(c, jr) == Fn("fake", "pmap", c, IF jr THEN 1 ELSE 0)

\* _fake_jit(fn, *unused_args, **unused_kwargs): returns fn itself.
fake_jit_fn(fn, extra) == fn

\* An array: its data, the leading dimensions added to it, and the
\* cross-device reduction (if any) it went through.
Arr(data) == [data |-> data, lead |-> 0, red |-> ""]
Arrays == {Arr("x"), Arr("y")}

\* _identity(x, *unused_args, **unused_kwargs)
identity(x, extra) == x

\* _fake_all_gather: adds a leading dimension to x.
fake_all_gather(x, extra) == [x EXCEPT !.lead = @ + 1]

\* Calling the collective installed as jax.lax.<n> on x with further
\* arguments: a fake reduction is _identity, the fake all_gather is
\* _fake_all_gather, the real ones reduce or gather across devices.
CallCollective(fnobj, x, extra) ==
  IF fnobj.k = "fake" /\ fnobj.n \in Reductions THEN identity(x, extra)
  ELSE IF fnobj.k = "fake" THEN fake_all_gather(x, extra)
  ELSE [x EXCEPT !.red = fnobj.n]

----------------------------------------------------------------------------
(* unittest.mock.patch(target, new) used as a context manager, and the     *)
(* _jax_disable_jit context manager: entering pushes a callback that       *)
(* holds what to restore.                                                  *)
Cb(t, n, saved, flag) == [t |-> t, n |-> n, saved |-> saved, flag |-> flag]

St(g, d, cbs) == [jax |-> g, dj |-> d, cbs |-> cbs]

\* stack.enter_context(mock.patch('jax.<n>', new))
EnterPatch(s, n, new) ==
  St([s.jax EXCEPT ![n] = new], s.dj,
     Append(s.cbs, Cb("patch", n, s.jax[n], FALSE)))

\* stack.enter_context(_jax_disable_jit()): up to the yield
EnterDisableJit(s) ==
  St(s.jax, TRUE, Append(s.cbs, Cb("config", "", None, s.dj)))

\* Mutant: the config callback switches jax_disable_jit off instead of
\* restoring the value it saved.
ExitCb_ResetsFlag(s, cb) ==
  IF cb.t = "patch"
    THEN St([s.jax EXCEPT ![cb.n] = cb.saved], s.dj, s.cbs)
    ELSE St(s.jax, FALSE, s.cbs)

\* The exit of one callback: mock.patch restores the attribute it saved,
\* _jax_disable_jit's finally restores the config value it saved.
ExitCb(s, cb) ==
  IF cb.t = "patch"
    THEN St([s.jax EXCEPT ![cb.n] = cb.saved], s.dj, s.cbs)
    ELSE St(s.jax, cb.flag, s.cbs)

\* ExitStack.__exit__: pops and runs every callback, last in first out.
RECURSIVE Unwind(_)
Unwind(s) ==
  IF s.cbs = <<>> THEN s
  ELSE LET cb == s.cbs[Len(s.cbs)]
           t == ExitCb(s, cb)
       IN Unwind(St(t.jax, t.dj, SubSeq(s.cbs, 1, Len(s.cbs) - 1)))

----------------------------------------------------------------------------
(* The factories. Each returns the namespace, the config and the callbacks *)
(* of the FakeContext it built.                                            *)

\* Mutant: jax.jit is patched but jax_disable_jit is left alone.
BuildFakeJit_PatchOnly(s, enable) ==
  IF enable THEN EnterPatch(s, "jit", FakeOf("jit")) ELSE s

\* fake_jit(enable_patching)
BuildFakeJit(s, enable) ==
  IF enable THEN EnterDisableJit(EnterPatch(s, "jit", FakeOf("jit"))) ELSE s

RECURSIVE EnterCollectives(_, _)
EnterCollectives(s, k) ==
  IF k > Len(Collectives) THEN s
  ELSE EnterCollectives(EnterPatch(s, Collectives[k], FakeOf(Collectives[k])), k + 1)

\* Mutant: only jax.pmap and jax.lax.psum are patched.
BuildFakePmap_PmapPsumOnly(s, enable, jr, c) ==
  IF enable
    THEN EnterPatch(EnterPatch(s, "pmap", FakePmapPartial(c, jr)), "psum", FakeOf("psum"))
    ELSE s

\* fake_pmap(enable_patching, jit_result), called for handle c
BuildFakePmap(s, enable, jr, c) ==
  IF enable
    THEN EnterCollectives(EnterPatch(s, "pmap", FakePmapPartial(c, jr)), 1)
    ELSE s

\* Mutant: the outer stack enters fake_jit(j) first, then fake_pmap(p).
BuildFakePmapAndJit_JitFirst(s, p, j, c) ==
  BuildFakePmap(BuildFakeJit(s, j), p, FALSE, c)

\* fake_pmap_and_jit(p, j): the outer stack enters fake_pmap(p), then fake_jit(j).
\* The callbacks of the two inner stacks are kept in one sequence, in the
\* order in which the outer stack unwinds them.
BuildFakePmapAndJit(s, p, j, c) ==
  BuildFakeJit(BuildFakePmap(s, p, FALSE, c), j)

Made(kind, p, j) == [kind |-> kind, p |-> p, j |-> j]
NotMade == Made("none", FALSE, FALSE)
Snap(g, d) == [jax |-> g, dj |-> d]

\* The bookkeeping common to the three factories. Handles are numbered in
\* the order in which the factories return them.
Install(c, m, s) ==
  /\ made[c] = NotMade
  /\ \A d \in 1..(c - 1) : made[d] # NotMade
  /\ jax' = s.jax
  /\ jax_disable_jit' = s.dj
  /\ made' = [made EXCEPT ![c] = m]
  /\ stacks' = [stacks EXCEPT ![c] = s.cbs]
  /\ pre' = [pre EXCEPT ![c] = Snap(jax, jax_disable_jit)]
  /\ live' = IF s.cbs = <<>> THEN live ELSE Append(live, c)
  /\ UNCHANGED <<initial, started, lifo, propagated, ocVars, pm, cpuVars>>

fake_jit(c, enable) ==
  Install(c, Made("jit", FALSE, enable),
          BuildFakeJit(St(jax, jax_disable_jit, <<>>), enable))

fake_pmap(c, enable, jr) ==
  Install(c, Made("pmap", enable, FALSE),
          BuildFakePmap(St(jax, jax_disable_jit, <<>>), enable, jr, c))

fake_pmap_and_jit(c, p, j) ==
  Install(c, Made("pmap_and_jit", p, j),
          BuildFakePmapAndJit(St(jax, jax_disable_jit, <<>>), p, j, c))

\* FakeContext.start() / with-entry: ExitStack.__enter__ returns self.
start(c) ==
  /\ made[c] # NotMade
  /\ ~started[c]
  /\ started' = [started EXCEPT ![c] = TRUE]
  /\ UNCHANGED <<initial, jax, jax_disable_jit, made, stacks, pre, live, lifo, propagated,
                 ocVars, pm, cpuVars>>

Without(seq, c) == SelectSeq(seq, LAMBDA x: x # c)

\* ExitStack.__exit__(exc): the callbacks run whatever exc is; none of them
\* suppresses an exception, so one given to it propagates.
Leave(c, exc) ==
  LET s == Unwind(St(jax, jax_disable_jit, stacks[c])) IN
  /\ made[c] # NotMade
  /\ jax' = s.jax
  /\ jax_disable_jit' = s.dj
  /\ stacks' = [stacks EXCEPT ![c] = s.cbs]
  /\ started' = [started EXCEPT ![c] = FALSE]
  /\ live' = Without(live, c)
  /\ lifo' = (lifo /\ (stacks[c] = <<>> \/ live[Len(live)] = c))
  /\ propagated' = exc
  /\ UNCHANGED <<initial, made, pre, ocVars, pm, cpuVars>>

\* FakeContext.stop(): __exit__(None, None, None), started or not.
stop(c) == Leave(c, FALSE)

\* The end of a with-block, normally or by an exception raised in the body.
with_exit(c, exc) == started[c] /\ Leave(c, exc)

----------------------------------------------------------------------------
(* OnCallOfTransformedFunction.                                            *)

\* What a transformation returns: the user function f as transformed by
\* `by` ("plain": f itself, "orig": the framework's transformation n of f),
\* inside the _new_transformed_fn closures of the instances w (outermost
\* first).
TF(w, by, n, f) == [w |-> w, by |-> by, n |-> n, f |-> f]
NoFn == TF(<<>>, "none", "", "")
RecursionError == TF(<<>>, "RecursionError", "", "")
TypeError == TF(<<>>, "TypeError", "", "")
IsFn(tf) == tf.by \in {"plain", "orig", "fake"}

\* _new_transformed_fn = functools.wraps(transformed_fn)(closure of instance i)
NewTransformedFn(i, transformed_fn) ==
  [transformed_fn EXCEPT !.w = <<i>> \o transformed_fn.w]

\* self._original_fn_transformation, read when the wrapper is called
OriginalOf(i) == oc_orig[i]

\* Calling the transformation object t on the user function f, at Python
\* call depth d. A _new_fn_transformation closure of instance t.i calls
\* self._original_fn_transformation and wraps what it returns.
RECURSIVE ApplyT(_, _, _)
ApplyT(t, f, d) ==
  IF d > RecursionLimit THEN RecursionError
  ELSE IF t.k = "orig" THEN TF(<<>>, "orig", t.n, f)
  ELSE IF t.k = "fake" /\ t.n = "jit" THEN fake_jit_fn(TF(<<>>, "plain", "", f), <<>>)
  ELSE IF t.k = "fake" THEN TF(<<>>, "fake", t.n, f)
  ELSE IF t.k = "wrap"
    THEN LET transformed_fn == ApplyT(OriginalOf(t.i), f, d + 1)
         IN IF IsFn(transformed_fn)
              THEN NewTransformedFn(t.i, transformed_fn)
              ELSE transformed_fn
  ELSE TypeError

Ev(ev, who, fn, a) == [ev |-> ev, who |-> who, fn |-> fn, a |-> a]
Inner(tf) == [tf EXCEPT !.w = Tail(tf.w)]

\* Mutant: the delegate is called before the callback.
WrapperCalls_DelegateFirst(i, transformed_fn, a) ==
  << Ev("delegate", i, transformed_fn, a), Ev("callback", i, transformed_fn, a) >>

\* What the closure of instance i passes on: the callback gets
\* (transformed_fn, *args, **kwargs), then transformed_fn gets (*args, **kwargs).
WrapperCalls(i, transformed_fn, a) ==
  << Ev("callback", i, transformed_fn, a), Ev("delegate", i, transformed_fn, a) >>

\* The calls made by tf(a), in order; "run" is the innermost function running.
RECURSIVE CallTrace(_, _)
CallTrace(tf, a) ==
  IF tf.w = <<>> THEN << Ev("run", 0, tf, a) >>
  ELSE WrapperCalls(tf.w[1], Inner(tf), a) \o CallTrace(Inner(tf), a)

Val(by, n, f, a) == [by |-> by, n |-> n, f |-> f, a |-> a]
NoVal == Val("none", "", "", "")

\* return transformed_fn(*args, **kwargs): the callback's return is dropped
WrapperReturn(callback_value, delegate_value) == delegate_value

RECURSIVE CallValue(_, _)
CallValue(tf, a) ==
  IF tf.w = <<>> THEN Val(tf.by, tf.n, tf.f, a)
  ELSE WrapperReturn(NoVal, CallValue(Inner(tf), a))

Res(a, v) == [args |-> a, val |-> v]
NoRes == Res("", NoVal)

MockPatch(n, new, saved) == [n |-> n, new |-> new, saved |-> saved]

\* Mutant: stop() forgets the patch but leaves the attribute as it is.
PatchStop_NoRestore(g, act, idx) == [jax |-> g, active |-> act \ {idx}]

\* mock.patch.stop(): a patch that is not in _active_patches is left alone;
\* otherwise it is removed from them and __exit__ restores the saved attribute.
PatchStop(g, act, idx) ==
  IF idx \in act
    THEN [jax |-> [g EXCEPT ![patches[idx].n] = patches[idx].saved],
          active |-> act \ {idx}]
    ELSE [jax |-> g, active |-> act]

\* OnCallOfTransformedFunction.__init__(fn_transformation, callback_fn).
\* Instances are numbered in the order in which they are first entered.
OnCall_init(i, n) ==
  /\ oc_name[i] = ""
  /\ \A d \in 1..(i - 1) : oc_patch[d] # 0
  /\ oc_name' = [oc_name EXCEPT ![i] = n]
  /\ UNCHANGED <<initial, jax, jax_disable_jit, fakeVars, oc_patch, oc_orig, patches, active,
                 entries, nested, ocStack, ocLifo, held, via, log, result, pm, cpuVars>>

\* OnCallOfTransformedFunction.__enter__
OnCall_enter(i) ==
  LET n == oc_name[i]
      idx == Len(patches) + 1
      new_fn_transformation == Fn("wrap", n, i, idx)
  IN
  /\ oc_name[i] # ""
  /\ Len(patches) < MaxPatches
  /\ patches' = Append(patches, MockPatch(n, new_fn_transformation, jax[n]))
  /\ oc_patch' = [oc_patch EXCEPT ![i] = idx]
  /\ oc_orig' = [oc_orig EXCEPT ![i] = jax[n]]
  /\ active' = active \cup {idx}
  /\ jax' = [jax EXCEPT ![n] = new_fn_transformation]
  /\ entries' = [entries EXCEPT ![i] = Append(@, jax[n])]
  /\ nested' = [nested EXCEPT ![i] = (entries[i] # <<>>)]
  /\ ocStack' = Append(ocStack, i)
  /\ UNCHANGED <<initial, jax_disable_jit, fakeVars, oc_name, ocLifo, held, via, log, result,
                 pm, cpuVars>>

\* OnCallOfTransformedFunction.__exit__, matching an earlier __enter__
OnCall_exit(i) ==
  LET r == PatchStop(jax, active, oc_patch[i]) IN
  /\ entries[i] # <<>>
  /\ jax' = r.jax
  /\ active' = r.active
  /\ entries' = [entries EXCEPT ![i] = SubSeq(@, 1, Len(@) - 1)]
  /\ ocLifo' = (ocLifo /\ ocStack[Len(ocStack)] = i)
  /\ ocStack' = LET last == CHOOSE k \in 1..Len(ocStack) :
                              /\ ocStack[k] = i
                              /\ \A m \in (k + 1)..Len(ocStack) : ocStack[m] # i
                IN SubSeq(ocStack, 1, last - 1) \o SubSeq(ocStack, last + 1, Len(ocStack))
  /\ UNCHANGED <<initial, jax_disable_jit, fakeVars, oc_name, oc_patch, oc_orig, patches, nested,
                 held, via, log, result, pm, cpuVars>>

\* History of a transformation: whether it went through the wrapper of an
\* instance that is entered, which instance, and what the function that was
\* installed just before that __enter__ returns for f.
Via(inside, i, f, expected) == [inside |-> inside, i |-> i, f |-> f, expected |-> expected]
NotVia == Via(FALSE, 0, "", NoFn)

OutputOf(before, f) ==
  IF before.k = "orig" THEN TF(<<>>, "orig", before.n, f)
  ELSE IF before = FakeOf("jit") THEN TF(<<>>, "plain", "", f)
  ELSE ApplyT(before, f, 2)

\* The program transforms f through the global: jax.<n>(f)
transform(n, f) ==
  /\ held' = ApplyT(jax[n], f, 1)
  /\ via' = IF jax[n].k = "wrap" /\ entries[jax[n].i] # <<>>
             THEN LET e == entries[jax[n].i]
                  IN Via(TRUE, jax[n].i, f, OutputOf(e[Len(e)], f))
             ELSE NotVia
  /\ log' = <<>>
  /\ result' = NoRes
  /\ UNCHANGED <<initial, jax, jax_disable_jit, fakeVars, oc_name, oc_patch, oc_orig, patches,
                 active, entries, nested, ocStack, ocLifo, pm, cpuVars>>

\* The program calls the function it holds with argument a.
call_held(a) ==
  /\ IsFn(held)
  /\ log' = CallTrace(held, a)
  /\ result' = Res(a, CallValue(held, a))
  /\ UNCHANGED <<initial, jax, jax_disable_jit, fakeVars, oc_name, oc_patch, oc_orig, patches,
                 active, entries, nested, ocStack, ocLifo, held, via, pm, cpuVars>>

----------------------------------------------------------------------------
(* The fake pmap: _fake_pmap(fn, in_axes, static_broadcasted_argnums) and  *)
(* a call of the wrapped_fn it returns.                                    *)
MaxParams == 3     \* parameters of the pmapped function

Params == 1..MaxParams
Axes == {"0", "None"}

\* A parameter of fn's signature: positional-or-keyword or keyword-only,
\* with or without a default.
Param(kind, dflt) == [kind |-> kind, dflt |-> dflt]

\* The signatures Python accepts: keyword-only parameters come last, and no
\* positional parameter without a default follows one with a default.
Signatures ==
  { sig \in [Params -> {Param(k, d) : k \in {"pos", "kwonly"}, d \in BOOLEAN}] :
      \A p, q \in Params :
        p < q => /\ (sig[p].kind = "kwonly" => sig[q].kind = "kwonly")
                 /\ (sig[p].kind = "pos" /\ sig[q].kind = "pos" /\ sig[p].dflt
                       => sig[q].dflt) }

\* in_axes: an int, a sequence with one entry per parameter, or a dict.
InAxes(t, v, seq) == [t |-> t, v |-> v, seq |-> seq]
InAxesValues ==
  {InAxes("int", v, <<>>) : v \in {"0", "1"}}
    \cup {InAxes("seq", "", seq) : seq \in [Params -> Axes]}
    \cup {InAxes("dict", "", <<>>)}

\* static_broadcasted_argnums: an int or a collection of ints (0-based).
Static(t, v, set) == [t |-> t, v |-> v, set |-> set]
StaticValues ==
  {Static("int", v, {}) : v \in 0..(MaxParams - 1)}
    \cup {Static("ints", 0, S) : S \in SUBSET (0..(MaxParams - 1))}

\* if isinstance(static_broadcasted_argnums, int): (static_broadcasted_argnums,)
StaticArgnums(st) == IF st.t = "int" THEN {st.v} ELSE st.set

\* The parameters that receive an argument: the first npos positionally,
\* those in kw by keyword.
Supplied(npos, kw) == (1..npos) \cup kw

\* sig.bind(*args, **kwargs) succeeds: not more positional arguments than
\* positional parameters, no parameter given twice, none without default
\* left out.
BindOK(sig, npos, kw) ==
  /\ \A p \in 1..npos : sig[p].kind = "pos"
  /\ kw \cap (1..npos) = {}
  /\ \A p \in Params : ~sig[p].dflt => p \in Supplied(npos, kw)

\* BoundArguments.args: the arguments of the leading positional parameters,
\* up to the first keyword-only parameter or the first parameter that was
\* given no argument. The argument given for parameter p is written p.
BoundArgs(sig, npos, kw) ==
  LET stops == {p \in Params : sig[p].kind = "kwonly" \/ p \notin Supplied(npos, kw)}
      n == IF stops = {} THEN MaxParams
           ELSE (CHOOSE p \in stops : \A q \in stops : p <= q) - 1
  IN [p \in 1..n |-> p]

\* convert_to_varargs(sig, *args, **kwargs)
convert_to_varargs(sig, npos, kw) == BoundArgs(sig, npos, kw)

\* list(vmap_in_axes) with vmap_in_axes[argnum] = None for the static argnums
\* (argnum is 0-based, the sequence 1-based)
WithStatic(axes, argnums) ==
  [p \in 1..Len(axes) |-> IF (p - 1) \in argnums THEN "None" ELSE axes[p]]

\* The axes wrapped_fn hands to jax.vmap for call_args.
VmapInAxes(in_axes, argnums, call_args) ==
  IF argnums # {}
    THEN LET base == IF in_axes.t = "int"
                       THEN [p \in 1..Len(call_args) |-> in_axes.v]
                       ELSE in_axes.seq
         IN InAxes("seq", "", WithStatic(base, argnums))
    ELSE in_axes

\* The caller's in_axes object after the call: wrapped_fn writes only to
\* the copy made by list(vmap_in_axes).
InAxesAfterCall(in_axes, argnums) == in_axes

Out(err, call_args, axes) == [err |-> err, call_args |-> call_args, axes |-> axes]

\* _fake_pmap(fn, ...) followed by one call wrapped_fn(*args, **kwargs)
WrappedCall(sig, npos, kw, in_axes, st) ==
  LET argnums == StaticArgnums(st)
      call_args == convert_to_varargs(sig, npos, kw)
  IN IF argnums # {} /\ in_axes.t = "dict"
       THEN Out("NotImplementedError", <<>>, in_axes)
     ELSE IF ~BindOK(sig, npos, kw)
       THEN Out("TypeError", <<>>, in_axes)
     ELSE IF \E a \in argnums :
               \/ a >= Len(call_args)
               \/ (in_axes.t = "seq" /\ a >= Len(in_axes.seq))
       THEN Out("IndexError", call_args, in_axes)
     ELSE Out("", call_args, VmapInAxes(in_axes, argnums, call_args))

PmReady(sig, npos, kw, in_axes, st) ==
  [phase |-> "ready", sig |-> sig, npos |-> npos, kw |-> kw, in_axes |-> in_axes,
   static |-> st, in_axes_after |-> in_axes, out |-> Out("", <<>>, in_axes)]

\* The program pmaps fn under the fake and calls the result once.
pmap_call ==
  /\ pm.phase = "ready"
  /\ pm' = [pm EXCEPT
       !.phase = "done",
       !.out = WrappedCall(pm.sig, pm.npos, pm.kw, pm.in_axes, pm.static),
       !.in_axes_after = InAxesAfterCall(pm.in_axes, StaticArgnums(pm.static))]
  /\ UNCHANGED <<initial, jax, jax_disable_jit, fakeVars, ocVars, cpuVars>>

----------------------------------------------------------------------------
(* set_n_cpu_devices and get_n_cpu_devices_from_xla_flags. XLA_FLAGS is    *)
(* the sequence of its flags: a device-count flag with its value, or some  *)
(* other flag.                                                             *)
chex_n_cpu_devices == 1   \* the default of FLAGS.chex_n_cpu_devices

Flag(t, v) == [t |-> t, v |-> v]
IsCount(fl) == fl.t = "count"
FlagValues == {Flag("count", v) : v \in 1..MaxN} \cup {Flag("other", v) : v \in 1..2}

RECURSIVE SeqsUpTo(_, _)
SeqsUpTo(S, n) ==
  IF n = 0 THEN {<<>>}
  ELSE LET shorter == SeqsUpTo(S, n - 1)
       IN shorter \cup {Append(q, x) : q \in shorter, x \in S}

\* re.match(_xla_device_count_flag_regexp, XLA_FLAGS): the pattern is tried
\* at the start of the string only.
get_n_cpu_devices_from_xla_flags(flags) ==
  IF flags # <<>> /\ IsCount(flags[1]) THEN flags[1].v ELSE 1

\* re.sub(_xla_device_count_flag_regexp, '', xla_flags).split()
WithoutCount(flags) == SelectSeq(flags, LAMBDA fl : ~IsCount(fl))

\* ' '.join(['--xla_force_host_platform_device_count=n'] + ...)
NewFlags(flags, n) == <<Flag("count", n)>> \o WithoutCount(flags)

\* n = n or FLAGS['chex_n_cpu_devices'].value  (0 stands for None)
EffectiveN(n) == IF n = 0 THEN chex_n_cpu_devices ELSE n

Raises(flags, hasBackend, n) ==
  hasBackend /\ get_n_cpu_devices_from_xla_flags(flags) # EffectiveN(n)

CpuCall(done, n, before, hadBackend, raised) ==
  [done |-> done, n |-> n, before |-> before, backend |-> hadBackend, raised |-> raised]

set_n_cpu_devices(n) ==
  /\ cpu_call' = CpuCall(TRUE, EffectiveN(n), xla_flags, backend,
                         Raises(xla_flags, backend, n))
  /\ xla_flags' = IF Raises(xla_flags, backend, n) THEN xla_flags
                  ELSE NewFlags(xla_flags, EffectiveN(n))
  /\ UNCHANGED <<initial, backend, jax, jax_disable_jit, fakeVars, ocVars, pm>>

\* Any JAX operation initialises the CPU backend.
init_backend ==
  /\ ~backend
  /\ backend' = TRUE
  /\ UNCHANGED <<initial, xla_flags, cpu_call, jax, jax_disable_jit, fakeVars, ocVars, pm>>

----------------------------------------------------------------------------
(* Initial states and specifications.                                      *)
FakeIdle ==
  /\ made = [c \in Ctx |-> NotMade]
  /\ stacks = [c \in Ctx |-> <<>>]
  /\ started = [c \in Ctx |-> FALSE]
  /\ pre = [c \in Ctx |-> Snap(JaxOrig, FALSE)]
  /\ live = <<>>
  /\ lifo = TRUE
  /\ propagated = FALSE

OnCallIdle ==
  /\ oc_patch = [i \in Inst |-> 0]
  /\ oc_orig = [i \in Inst |-> None]
  /\ patches = <<>>
  /\ active = {}
  /\ entries = [i \in Inst |-> <<>>]
  /\ nested = [i \in Inst |-> FALSE]
  /\ ocStack = <<>>
  /\ ocLifo = TRUE
  /\ initial = Snap(jax, jax_disable_jit)
  /\ held = NoFn
  /\ via = NotVia
  /\ log = <<>>
  /\ result = NoRes

PmIdle ==
  pm = PmReady([p \in Params |-> Param("pos", FALSE)], MaxParams, {},
               InAxes("int", "0", <<>>), Static("ints", 0, {}))

CpuIdle ==
  /\ xla_flags = <<>>
  /\ backend = FALSE
  /\ cpu_call = CpuCall(FALSE, 0, <<>>, FALSE, FALSE)

\* The FakeContext factories, with any jax_disable_jit to begin with.
Init ==
  /\ jax = JaxOrig
  /\ jax_disable_jit \in BOOLEAN
  /\ FakeIdle /\ OnCallIdle /\ oc_name = [i \in Inst |-> "jit"] /\ PmIdle /\ CpuIdle

Next ==
  \/ \E c \in Ctx, enable \in BOOLEAN : fake_jit(c, enable)
  \/ \E c \in Ctx, enable \in BOOLEAN, jr \in BOOLEAN : fake_pmap(c, enable, jr)
  \/ \E c \in Ctx, p \in BOOLEAN, j \in BOOLEAN : fake_pmap_and_jit(c, p, j)
  \/ \E c \in Ctx : start(c)
  \/ \E c \in Ctx : stop(c)
  \/ \E c \in Ctx, exc \in BOOLEAN : with_exit(c, exc)

Spec == Init /\ [][Next]_vars

\* OnCallOfTransformedFunction instances on jax.jit or jax.pmap; jax.jit
\* may be the real one or the fake one when the first instance is entered.
InitOnCall ==
  /\ jax \in {JaxOrig, [JaxOrig EXCEPT !["jit"] = FakeOf("jit")]}
  /\ jax_disable_jit = FALSE
  /\ oc_name = [i \in Inst |-> ""]
  /\ FakeIdle /\ OnCallIdle /\ PmIdle /\ CpuIdle

NextOnCall ==
  \/ \E i \in Inst, n \in {"jit", "pmap"} : OnCall_init(i, n)
  \/ \E i \in Inst : OnCall_enter(i)
  \/ \E i \in Inst : OnCall_exit(i)
  \/ \E n \in {"jit", "pmap"}, f \in Fns : transform(n, f)
  \/ \E a \in ArgVals : call_held(a)

SpecOnCall == InitOnCall /\ [][NextOnCall]_vars

\* One call of a fake-pmapped function, for every signature, argument
\* passing, in_axes and static_broadcasted_argnums within the bounds.
InitPmap ==
  /\ jax = JaxOrig
  /\ jax_disable_jit = FALSE
  /\ pm \in {PmReady(sig, npos, kw, ia, st) :
               sig \in Signatures, npos \in 0..MaxParams, kw \in SUBSET Params,
               ia \in InAxesValues, st \in StaticValues}
  /\ FakeIdle /\ OnCallIdle /\ oc_name = [i \in Inst |-> "jit"] /\ CpuIdle

NextPmap == pmap_call

SpecPmap == InitPmap /\ [][NextPmap]_vars

\* set_n_cpu_devices from every XLA_FLAGS within the bounds, before and
\* after the CPU backend is initialised.
InitCpu ==
  /\ jax = JaxOrig
  /\ jax_disable_jit = FALSE
  /\ xla_flags \in SeqsUpTo(FlagValues, MaxFlags)
  /\ backend = FALSE
  /\ cpu_call = CpuCall(FALSE, 0, <<>>, FALSE, FALSE)
  /\ FakeIdle /\ OnCallIdle /\ oc_name = [i \in Inst |-> "jit"] /\ PmIdle

NextCpu ==
  \/ \E n \in 0..MaxN : set_n_cpu_devices(n)
  \/ init_backend

SpecCpu == InitCpu /\ [][NextCpu]_vars

----------------------------------------------------------------------------
(* Properties of the FakeContext factories (specification Spec).           *)

IsFake(n) == jax[n].k = "fake" /\ jax[n].n = n
IsFakeAfter(n) == jax'[n].k = "fake" /\ jax'[n].n = n

\* handle c holds the callbacks of an enabled fake_jit
HoldsJit(c) == made[c] = Made("jit", FALSE, TRUE) /\ stacks[c] # <<>>
\* handle c holds the callbacks of an enabled fake_pmap
HoldsPmap(c) == made[c] = Made("pmap", TRUE, FALSE) /\ stacks[c] # <<>>
\* the step in which handle c runs its callbacks
Leaves(c) == stacks[c] # <<>> /\ stacks'[c] = <<>>

\* C1: while a fake_jit(enable_patching=True) context is active (from its
\* creation until it is left, contexts being closed last in first out),
\* jax.jit is _fake_jit, jax.jit(fn, ...) returns fn itself, and
\* jax_disable_jit is True.
C1_JitIsIdentityWhileActive ==
  \A c \in Ctx :
    (lifo /\ HoldsJit(c)) =>
      /\ jax["jit"] = FakeOf("jit")
      /\ \A f \in Fns : ApplyT(jax["jit"], f, 1) = TF(<<>>, "plain", "", f)
      /\ jax_disable_jit = TRUE

\* A started fake_jit context, created while jax_disable_jit was False and
\* jax.jit was the real one.
C1_Witness ==
  \E c \in Ctx :
    /\ lifo /\ HoldsJit(c) /\ started[c]
    /\ pre[c].dj = FALSE /\ pre[c].jax["jit"] = Orig("jit")
    /\ jax_disable_jit

\* C2: the step that leaves a fake_jit(enable_patching=True) context (stop(),
\* the normal end of a with-block, or an exception in it, which propagates)
\* puts back the jax.jit and the jax_disable_jit of the moment the context
\* was created; with contexts closed last in first out, once none holds a
\* patch the initial namespace and config are in place.
C2_LeavingRestores ==
  /\ [][\A c \in Ctx :
          (made[c] = Made("jit", FALSE, TRUE) /\ Leaves(c)) =>
            /\ jax'["jit"] = pre[c].jax["jit"]
            /\ jax_disable_jit' = pre[c].dj]_vars
  /\ []((lifo /\ live = <<>>) =>
          (jax = initial.jax /\ jax_disable_jit = initial.dj))

\* A fake_jit context created while jax_disable_jit was already True (inside
\* another fake_jit context) has been left by an exception, which propagated.
C2_Witness ==
  \E c, d \in Ctx :
    /\ c # d /\ lifo
    /\ made[c] = Made("jit", FALSE, TRUE) /\ stacks[c] = <<>>
    /\ HoldsJit(d) /\ pre[c].dj = TRUE /\ initial.dj = FALSE
    /\ propagated
    /\ jax_disable_jit

\* C5: the six globals jax.pmap, psum, pmean, pmax, pmin, all_gather are
\* patched all together or not at all; while a fake_pmap(enable_patching=True)
\* context is active (contexts closed last in first out) all six are the
\* fakes and the four fake reductions return their first argument whatever
\* else is passed; the step that leaves the context puts back the six
\* functions of the moment it was created.
C5_SixPatchedTogether ==
  /\ []({n \in PmapNames : jax[n] # Orig(n)} \in {{}, PmapNames})
  /\ [](\A c \in Ctx :
          (lifo /\ HoldsPmap(c)) =>
            /\ \A n \in PmapNames : IsFake(n)
            /\ \A n \in Reductions, x \in Arrays, extra \in {"i", "j"} :
                 CallCollective(jax[n], x, extra) = x)
  /\ [][\A c \in Ctx :
          (made[c] = Made("pmap", TRUE, FALSE) /\ Leaves(c)) =>
            \A n \in PmapNames : jax'[n] = pre[c].jax[n]]_vars

\* A started fake_pmap context created over the real functions.
C5_Witness ==
  \E c \in Ctx :
    /\ lifo /\ HoldsPmap(c) /\ started[c]
    /\ \A n \in PmapNames : pre[c].jax[n] = Orig(n) /\ IsFake(n)

IsPmapCb(cb) == cb.t = "patch" /\ cb.n \in PmapNames
IsJitCb(cb) == cb.t = "config" \/ (cb.t = "patch" /\ cb.n = "jit")

\* C6: fake_pmap_and_jit(p, j) behaves as fake_pmap(p) with fake_jit(j)
\* nested inside it: the call patches the six pmap globals iff p, and
\* jax.jit and jax_disable_jit iff j, leaving the rest untouched; this stays
\* so while the context is the innermost active one; its callbacks undo the
\* jit patch before the pmap patches; and leaving it (contexts closed last
\* in first out) puts back every global and the config of the moment it was
\* created.
C6_PmapAndJitIsNested ==
  /\ [][\A c \in Ctx :
          (made[c] = NotMade /\ made'[c].kind = "pmap_and_jit") =>
            /\ \A n \in PmapNames :
                 IF made'[c].p THEN IsFakeAfter(n) ELSE jax'[n] = jax[n]
            /\ IF made'[c].j
                 THEN jax'["jit"] = FakeOf("jit") /\ jax_disable_jit' = TRUE
                 ELSE jax'["jit"] = jax["jit"] /\ jax_disable_jit' = jax_disable_jit]_vars
  /\ [](\A c \in Ctx :
          (made[c].kind = "pmap_and_jit" /\ lifo /\ live # <<>> /\ live[Len(live)] = c) =>
            /\ \A n \in PmapNames :
                 IF made[c].p THEN IsFake(n) ELSE jax[n] = pre[c].jax[n]
            /\ IF made[c].j
                 THEN jax["jit"] = FakeOf("jit") /\ jax_disable_jit = TRUE
                 ELSE jax["jit"] = pre[c].jax["jit"] /\ jax_disable_jit = pre[c].dj)
  /\ [](\A c \in Ctx :
          made[c].kind = "pmap_and_jit" =>
            \A a, b \in 1..Len(stacks[c]) :
              (IsPmapCb(stacks[c][a]) /\ IsJitCb(stacks[c][b])) => a < b)
  /\ [][\A c \in Ctx :
          (made[c].kind = "pmap_and_jit" /\ Leaves(c) /\ lifo /\ live[Len(live)] = c) =>
            /\ jax' = pre[c].jax
            /\ jax_disable_jit' = pre[c].dj]_vars

\* A fake_pmap_and_jit(True, True) context is active, and one with
\* (True, False) has been left.
C6_Witness ==
  \E c, d \in Ctx :
    /\ lifo
    /\ made[c] = Made("pmap_and_jit", TRUE, TRUE) /\ stacks[c] # <<>> /\ started[c]
    /\ made[d] = Made("pmap_and_jit", TRUE, FALSE) /\ stacks[d] = <<>>
    /\ pre[d].jax = JaxOrig

\* C7 (as claimed): a context returned by fake_jit() or fake_pmap() patches
\* the globals exactly while it is started: with no other context around,
\* jax.jit / jax.pmap is the fake when the context is started and the
\* original when it is not.
C7_PatchedExactlyWhileStarted ==
  \A c \in Ctx :
    ((\A d \in Ctx \ {c} : made[d] = NotMade)
        /\ made[c] \in {Made("jit", FALSE, TRUE), Made("pmap", TRUE, FALSE)}) =>
      LET n == made[c].kind IN
      IF started[c] THEN IsFake(n) ELSE jax[n] = Orig(n)

----------------------------------------------------------------------------
(* Properties of OnCallOfTransformedFunction (specification SpecOnCall).   *)

Count(ev, i) == Cardinality({m \in 1..Len(log) : log[m].ev = ev /\ log[m].who = i})

\* C3: when a function transformed through the named global inside an
\* OnCallOfTransformedFunction context (contexts being exited last in first
\* out, as with-blocks are) is called, the callback is invoked
\* exactly once, first, with the original transformation's output for f and
\* the call's arguments; then that output is called exactly once with the
\* same arguments, and the caller receives what it returns.
C3_CallbackThenDelegate ==
  (ocLifo /\ log # <<>> /\ via.inside) =>
    /\ Len(log) >= 2
    /\ log[1] = Ev("callback", via.i, via.expected, result.args)
    /\ log[2] = Ev("delegate", via.i, via.expected, result.args)
    /\ Count("callback", via.i) = 1
    /\ Count("delegate", via.i) = 1
    /\ result.val = Val(via.expected.by, via.expected.n, via.expected.f, result.args)

\* A function jitted by the real jax.jit inside a context has been called.
C3_Witness ==
  /\ ocLifo /\ log # <<>> /\ via.inside
  /\ via.expected = TF(<<>>, "orig", "jit", "f")
  /\ result.args = "x"

Entering(i) == Len(entries'[i]) = Len(entries[i]) + 1
Exiting(i) == Len(entries'[i]) = Len(entries[i]) - 1

\* C4: every __enter__ installs a _new_fn_transformation wrapper of the
\* instance as the named global, and the __exit__ matching it (no re-entry
\* in between) puts back exactly the function that was installed just
\* before that __enter__, cycle after cycle on the same instance.
C4_TemporaryAndReusable ==
  [][\A i \in Inst :
       /\ Entering(i) =>
            /\ jax'[oc_name[i]].k = "wrap" /\ jax'[oc_name[i]].i = i
            /\ jax'[oc_name[i]] # jax[oc_name[i]]
       /\ (Exiting(i) /\ Len(entries[i]) = 1 /\ ~nested[i]) =>
            jax'[oc_name[i]] = entries[i][1]]_vars

\* Two enter/exit cycles of the same instance are over, none re-entered,
\* and the namespace is the initial one.
C4_Witness ==
  /\ Len(patches) >= 2
  /\ patches[1].new.i = patches[2].new.i
  /\ active = {}
  /\ \A i \in Inst : entries[i] = <<>> /\ ~nested[i]
  /\ jax = initial.jax

\* C10 (as claimed): with every __exit__ closing the most recent __enter__,
\* also when an instance is entered again while active, transforming a
\* function through the named global never runs into its own wrapper
\* without end, and once every __enter__ is matched by an __exit__ the
\* namespace is the one from before the first __enter__.
C10_ReentryTerminatesAndRestores ==
  ocLifo =>
    /\ held # RecursionError
    /\ (ocStack = <<>> => jax = initial.jax)

----------------------------------------------------------------------------
(* Properties of the fake pmap's wrapped_fn (specification SpecPmap).      *)

\* The axes the call is claimed to use for argument position p (1-based).
ClaimedAxis(p) ==
  IF (p - 1) \in StaticArgnums(pm.static) THEN "None"
  ELSE IF pm.in_axes.t = "int" THEN pm.in_axes.v
  ELSE pm.in_axes.seq[p]

\* C8 (as claimed): a call of a fake-pmapped function with non-dict in_axes
\* that completes has put every argument, those passed by keyword included,
\* on the positional slot of its parameter; in_axes is passed through when
\* static_broadcasted_argnums is empty (an int, 0 included, counting as a
\* one-element collection), otherwise position i gets None if it is static
\* and in_axes or in_axes[i] if not; the caller's in_axes is not mutated.
C8_KeywordsOnTheirSlots ==
  (pm.phase = "done" /\ pm.out.err = "" /\ pm.in_axes.t # "dict") =>
    /\ \A p \in Supplied(pm.npos, pm.kw) :
         pm.sig[p].kind = "pos" =>
           (p <= Len(pm.out.call_args) /\ pm.out.call_args[p] = p)
    /\ IF StaticArgnums(pm.static) = {}
         THEN pm.out.axes = pm.in_axes
         ELSE /\ pm.out.axes.t = "seq"
              /\ \A p \in 1..Len(pm.out.call_args) : pm.out.axes.seq[p] = ClaimedAxis(p)
    /\ pm.in_axes_after = pm.in_axes

----------------------------------------------------------------------------
(* Properties of set_n_cpu_devices (specification SpecCpu).                *)

CountFlags(flags) == {k \in 1..Len(flags) : IsCount(flags[k])}

\* The device count configured in XLA_FLAGS: the value of the device-count
\* flag wherever it stands, 1 without one.
Configured(flags) ==
  IF CountFlags(flags) = {} THEN 1
  ELSE flags[CHOOSE k \in CountFlags(flags) : \A m \in CountFlags(flags) : k <= m].v

\* C9 (as claimed): set_n_cpu_devices(n) raises exactly when the CPU backend
\* is initialised and the device count configured in XLA_FLAGS (at most one
\* device-count flag, anywhere among the flags) differs from n; when it
\* raises XLA_FLAGS is unchanged; when it does not, XLA_FLAGS holds exactly
\* one device-count flag, with value n, and every other flag as before.
C9_RaisesExactlyOnMismatch ==
  (cpu_call.done /\ Cardinality(CountFlags(cpu_call.before)) <= 1) =>
    /\ cpu_call.raised <=>
         (cpu_call.backend /\ Configured(cpu_call.before) # cpu_call.n)
    /\ cpu_call.raised => xla_flags = cpu_call.before
    /\ ~cpu_call.raised =>
         /\ Cardinality(CountFlags(xla_flags)) = 1
         /\ Configured(xla_flags) = cpu_call.n
         /\ WithoutCount(xla_flags) = WithoutCount(cpu_call.before)

====
